---- MODULE Spec2Model ----
(***************************************************************************)
(* Timetable_Bot (src/app.py): a BackgroundScheduler job table fed by the  *)
(* daily planner schedule_all_for_today, the one-shot midnight job, the    *)
(* notifier send_message and the startup / shutdown path of main.          *)
(*                                                                         *)
(* Time is an absolute number of minutes; day 0 is a Monday.  A "HH:MM"    *)
(* string of timetable.json is the pair <<HH, MM>> of the numbers it       *)
(* spells; strptime turns it into a minute of the day or fails.            *)
(***************************************************************************)
EXTENDS Integers, Sequences, FiniteSets, Bags, TLC

(* ------------------------------ bounds --------------------------------- *)
MaxDay == 1        \* calendar days 0..MaxDay are modelled
MaxClasses == 2    \* longest event sequence of one weekday
MaxCalls == 2      \* direct calls of each planning function by the caller

(* --------------------------- program constants ------------------------- *)
MinutesPerDay == 1440
PreStartMinutes == 10
PreEndMinutes == 5
MidnightMinute == 1

None == "None"
ValueError == -1

WeekdayNames == <<"Monday", "Tuesday", "Wednesday", "Thursday", "Friday", "Saturday", "Sunday">>

\* datetime.strftime("%A")
StrftimeA(t) == WeekdayNames[((t \div MinutesPerDay) % 7) + 1]

\* now.date(), as the first minute of that calendar day
DateOf(t) == (t \div MinutesPerDay) * MinutesPerDay

\* a wrong parser that wraps an hour or minute out of range
StrptimeWrap(s) == (s[1] % 24) * 60 + (s[2] % 60)

\* datetime.strptime(s, "%H:%M").time(): the minute of the day, or ValueError
Strptime(s) ==
  IF Len(s) = 2 /\ s[1] \in 0..23 /\ s[2] \in 0..59 THEN s[1] * 60 + s[2] ELSE ValueError

(* ------------------------------ inputs --------------------------------- *)
Math9 == [subject |-> "Math",    start |-> <<9, 0>>,   end |-> <<10, 0>>]
Physics == [subject |-> "Physics", start |-> <<10, 15>>, end |-> <<11, 15>>]
Math1015 == [subject |-> "Math",    start |-> <<10, 15>>, end |-> <<11, 15>>]
BadChem == [subject |-> "Chem",    start |-> <<25, 0>>,  end |-> <<10, 0>>]

ClassPool == {Math9, Physics, Math1015, BadChem}

RECURSIVE SeqsUpTo(_, _)
SeqsUpTo(S, n) ==
  IF n = 0 THEN {<<>>}
  ELSE LET shorter == SeqsUpTo(S, n - 1)
       IN  shorter \cup {Append(q, x) : q \in {r \in shorter : Len(r) = n - 1}, x \in S}

DaySeqs == SeqsUpTo(ClassPool, MaxClasses)

\* what the days after the first may hold: key absent, or one class
LaterDayChoices == {None, "Physics"}

ModelledWeekdays == {WeekdayNames[(d % 7) + 1] : d \in 0..MaxDay}

\* timetable.json: a mapping from some weekday names to event sequences
MakeTimetable(mon, later) ==
  IF later = None
  THEN [w \in {"Monday"} |-> mon]
  ELSE [w \in ModelledWeekdays |-> IF w = "Monday" THEN mon ELSE <<Physics>>]

Timetables == {MakeTimetable(mon, later) : mon \in DaySeqs, later \in LaterDayChoices}

\* a wrong lookup that falls back on Monday's classes
TimetableGetMonday(tt, today_name) ==
  IF today_name \in DOMAIN tt THEN tt[today_name] ELSE tt["Monday"]

\* TIMETABLE.get(today_name, [])
TimetableGet(tt, today_name) == IF today_name \in DOMAIN tt THEN tt[today_name] ELSE <<>>

\* instants of a day at which the clock is observed
DayPoints ==
  {0, MidnightMinute, 8 * 60 + 40, 9 * 60 + 5, MinutesPerDay - 1}
  \cup {Strptime(c.start) - PreStartMinutes : c \in {x \in ClassPool : Strptime(x.start) # ValueError}}
  \cup {Strptime(c.start) : c \in {x \in ClassPool : Strptime(x.start) # ValueError}}
  \cup {Strptime(c.end) - PreEndMinutes : c \in {x \in ClassPool : Strptime(x.end) # ValueError}}

ClockPoints == {d * MinutesPerDay + m : d \in 0..MaxDay, m \in DayPoints}

\* instants at which the process may be started
StartPoints == DayPoints

VARIABLES TIMETABLE, clock, jobs, schedState, pc, planning, application, botPc,
          lastRun, quiet, delivered, refired, jobErrors, midnightFired, interrupted,
          sendLog, midnightCalls, planCalls, BOT_TOKEN, CHAT_ID, webserver, lastReply,
          inFlight

vars == <<TIMETABLE, clock, jobs, schedState, pc, planning, application, botPc,
          lastRun, quiet, delivered, refired, jobErrors, midnightFired, interrupted,
          sendLog, midnightCalls, planCalls, BOT_TOKEN, CHAT_ID, webserver, lastReply,
          inFlight>>

(* --------------------------- the job table ----------------------------- *)
\* the job table is a bag of jobs [id, run_date, func, args]
JobIds(table) == {j.id : j \in BagToSet(table)}

\* a wrong replacement that cancels nothing
RemoveIdKeep(table, id) == table

\* replace_existing=True: the job stored under the identifier goes
RemoveId(table, id) == [j \in {x \in BagToSet(table) : x.id # id} |-> table[j]]

\* a wrong add_job that keeps the job already stored under the identifier
AddJobAccumulate(table, job) == table (+) SetToBag({job})

\* scheduler.add_job(..., id=job.id, replace_existing=True)
AddJob(table, job) == RemoveId(table, job.id) (+) SetToBag({job})

\* the store drops a date-trigger job when it hands it to the executor
RemoveJob(table, job) == table (-) SetToBag({job})

(* --------------------------- message texts ----------------------------- *)
NoText == [tmpl |-> "", subject |-> "", start |-> <<>>]

\* "No more classes today"
NoMoreText == [tmpl |-> "No more classes today", subject |-> "", start |-> <<>>]

\* f"Next: *{next_cls['subject']}* at {next_cls['start']}"
NextClassText(next_cls) == [tmpl |-> "Next", subject |-> next_cls.subject, start |-> next_cls.start]

\* classes[i] of the source, whose positions start at 0
Nth(classes, i) == classes[i + 1]

\* a wrong successor test that stops one class early
HasNextOffByOne(classes, idx) == idx + 2 < Len(classes)

\* idx + 1 < len(classes)
HasNext(classes, idx) == idx + 1 < Len(classes)

NextText(classes, idx) ==
  IF HasNext(classes, idx) THEN NextClassText(Nth(classes, idx + 1)) ELSE NoMoreText

PreStartArgs(cls) ==
  [tmpl |-> "Next in 10 min", subject |-> cls.subject, start |-> cls.start, end |-> cls.end,
   next_text |-> NoText]

StartArgs(cls) ==
  [tmpl |-> "Now starting", subject |-> cls.subject, start |-> cls.start, end |-> cls.end,
   next_text |-> NoText]

PreEndArgs(cls, next_text) ==
  [tmpl |-> "5 min left", subject |-> cls.subject, start |-> <<>>, end |-> cls.end,
   next_text |-> next_text]

NoArgs == [tmpl |-> "", subject |-> "", start |-> <<>>, end |-> <<>>, next_text |-> NoText]

(* ----------------------------- the planner ----------------------------- *)
\* a wrong pre-start instant
TBefore10Late(start_dt) == start_dt - PreEndMinutes

\* t_before_10 = start_dt - timedelta(minutes=10)
TBefore10(start_dt) == start_dt - PreStartMinutes

\* t_before_end_5 = end_dt - timedelta(minutes=5)
TBeforeEnd5(end_dt) == end_dt - PreEndMinutes

\* a wrong planner that registers every candidate
InFutureAlways(t, now) == TRUE

\* a wrong filter that also takes the candidate equal to now
InFutureOrNow(t, now) == t >= now

\* "only schedule if in future": t > now
InFuture(t, now) == t > now

\* f"{today_name}-{subject}-10min" and its two siblings
JobId(today_name, subject, kind) == <<today_name, subject, kind>>

NotifJob(id, run_date, args) ==
  [id |-> id, run_date |-> run_date, func |-> "send_message", args |-> args]

\* one conditional add_job of the loop body; st = [jobs, regs]
Register(st, cond, idx, kind, job) ==
  IF cond
  THEN [jobs |-> AddJob(st.jobs, job),
        regs |-> Append(st.regs, [idx |-> idx, kind |-> kind, job |-> job])]
  ELSE st

\* the body of the for loop for the class at position idx
PlanOne(st, classes, idx, today_name, now) ==
  LET cls == Nth(classes, idx)
      start_dt == DateOf(now) + Strptime(cls.start)
      end_dt == DateOf(now) + Strptime(cls.end)
      t_before_10 == TBefore10(start_dt)
      t_start == start_dt
      t_before_end_5 == TBeforeEnd5(end_dt)
      next_text == NextText(classes, idx)
      s1 == Register(st, InFuture(t_before_10, now), idx, "10min",
                     NotifJob(JobId(today_name, cls.subject, "10min"), t_before_10, PreStartArgs(cls)))
      s2 == Register(s1, InFuture(t_start, now), idx, "start",
                     NotifJob(JobId(today_name, cls.subject, "start"), t_start, StartArgs(cls)))
      s3 == Register(s2, InFuture(t_before_end_5, now), idx, "5end",
                     NotifJob(JobId(today_name, cls.subject, "5end"), t_before_end_5,
                              PreEndArgs(cls, next_text)))
  IN  s3

\* for idx, cls in enumerate(classes): a strptime failure leaves the loop
RECURSIVE PlanLoop(_, _, _, _, _)
PlanLoop(st, classes, idx, today_name, now) ==
  IF idx >= Len(classes)
  THEN [jobs |-> st.jobs, regs |-> st.regs, fault |-> FALSE]
  ELSE IF Strptime(Nth(classes, idx).start) = ValueError \/ Strptime(Nth(classes, idx).end) = ValueError
       THEN [jobs |-> st.jobs, regs |-> st.regs, fault |-> TRUE]
       ELSE PlanLoop(PlanOne(st, classes, idx, today_name, now), classes, idx + 1, today_name, now)

\* schedule_all_for_today from the second clock read on
ScheduleAllBody(tt, table, today_name, now) ==
  PlanLoop([jobs |-> table, regs |-> <<>>], TimetableGet(tt, today_name), 0, today_name, now)

MidnightId == <<"schedule_tomorrow">>

\* (now + 1 day).replace(hour=0, minute=1)
Tomorrow(now) == DateOf(now) + MinutesPerDay + MidnightMinute

MidnightJob(now) ==
  [id |-> MidnightId, run_date |-> Tomorrow(now), func |-> "schedule_all_for_today", args |-> NoArgs]

\* schedule_midnight_job
ScheduleMidnightJob(table, now) == AddJob(table, MidnightJob(now))

(* ------------------------------- state --------------------------------- *)
\* TIMETABLE      the loaded timetable.json
\* clock          the wall clock, in minutes
\* jobs           the scheduler's job table
\* schedState     "stopped" before scheduler.start(), "running", "shutdown"
\*                after scheduler.shutdown(), "killed" when the process ended
\*                without it
\* pc             position of the main thread
\* planning       the run of schedule_all_for_today between its two clock
\*                reads: [who, today_name, readAt], or NoRun
\* application    the global application handle and its state
\* botPc          position of the bot thread
\* lastRun, quiet, delivered, refired, jobErrors, midnightFired,
\* interrupted, sendLog, midnightCalls, planCalls   records of what has happened
\* BOT_TOKEN, CHAT_ID   the two required environment variables
\* webserver      the Flask thread has been started
\* lastReply      the reply of the last command handler
\* inFlight       texts of the sends that have begun and not returned
NoRun == [who |-> None, today_name |-> None, readAt |-> 0]

NoLastRun ==
  [who |-> None, today_name |-> None, now |-> 0, readAt |-> 0, regs |-> <<>>, fault |-> FALSE,
   preEmpty |-> FALSE, preIds |-> {}, inRow |-> FALSE]

\* os.getenv: unset, empty or set
EnvValues == {None, "", "set"}

\* a wrong test that ends the process only when both are missing
ConfigMissingBoth(token, chat) == token \in {None, ""} /\ chat \in {None, ""}

\* if not BOT_TOKEN or not CHAT_ID
ConfigMissing(token, chat) == token \in {None, ""} \/ chat \in {None, ""}

NoReply == [cmd |-> None, today_name |-> None, classes_today |-> 0]

Init ==
  /\ TIMETABLE \in Timetables
  /\ clock \in StartPoints
  /\ jobs = EmptyBag
  /\ schedState = "stopped"
  /\ pc = "import"
  /\ BOT_TOKEN \in EnvValues
  /\ CHAT_ID \in EnvValues
  /\ webserver = FALSE
  /\ lastReply = NoReply
  /\ inFlight = {}
  /\ planning = NoRun
  /\ application = None
  /\ botPc = "not_started"
  /\ lastRun = NoLastRun
  /\ quiet = FALSE
  /\ delivered = {}
  /\ refired = FALSE
  /\ jobErrors = {}
  /\ midnightFired = FALSE
  /\ interrupted = FALSE
  /\ sendLog = {}
  /\ midnightCalls = 0
  /\ planCalls = 0

\* the process is gone: main returned or died of an uncaught exception
Exited == pc \in {"done", "crashed", "config_exit"}

\* what an uncaught exception in the main thread leaves of the scheduler
AfterCrash(state) == IF state = "running" THEN "killed" ELSE state

(* ------------------------------ the clock ------------------------------ *)
\* positions of main at which nothing has read the clock yet: time passing
\* there is a later start of the process
BeforeFirstRead ==
  {"import", "keep_alive", "sched_start", "test_msg", "test_msg_wait", "startup_plan"}

\* the start of the bot thread and the shutdown path of main are short against
\* one step of the clock, and the clock steps at most once between two
\* consecutive clock reads of a planning run or of startup_schedule
ShortSteps ==
  \/ botPc \in {"build", "init"}
  \/ pc \in {"bot_thread", "except", "app_stop", "app_shutdown", "sched_shutdown"}
  \/ planning.who # None /\ clock # planning.readAt
  \/ pc = "startup_midnight" /\ clock # lastRun.now

\* time passes; a running scheduler fires a job when its run_date arrives,
\* so the clock does not pass the run_date of a pending job
Tick ==
  /\ ~Exited
  /\ pc \notin BeforeFirstRead
  /\ ~ShortSteps
  /\ \E t \in ClockPoints :
       /\ t > clock
       /\ \A u \in ClockPoints : u > clock => t <= u
       /\ schedState = "running" => \A j \in BagToSet(jobs) : t <= j.run_date
       /\ clock' = t
  /\ quiet' = FALSE
  /\ UNCHANGED <<TIMETABLE, jobs, schedState, pc, planning, application, botPc, lastRun,
                 delivered, refired, jobErrors, midnightFired, interrupted, sendLog,
                 midnightCalls, planCalls,
                 BOT_TOKEN, CHAT_ID, webserver, lastReply, inFlight>>

(* ----------------------- schedule_all_for_today ------------------------ *)
\* today_name = datetime.now(tz).strftime("%A")
BeginRun(who) == [who |-> who, today_name |-> StrftimeA(clock), readAt |-> clock]

RunRecord(r) ==
  [who |-> planning.who, today_name |-> planning.today_name, now |-> clock,
   readAt |-> planning.readAt, regs |-> r.regs, fault |-> r.fault,
   preEmpty |-> (jobs = EmptyBag),
   preIds |-> JobIds(jobs),
   inRow |-> quiet]

\* now = datetime.now(tz) and the loop over the classes
PlanRegister ==
  /\ planning.who # None
  /\ planning.who = "main" => pc = "startup_plan_run"
  /\ planning.who = "worker" => schedState = "running"
  /\ LET r == ScheduleAllBody(TIMETABLE, jobs, planning.today_name, clock)
     IN  /\ jobs' = r.jobs
         /\ lastRun' = RunRecord(r)
         /\ quiet' = (planning.readAt = clock)
         /\ pc' = IF planning.who = "main"
                  THEN (IF r.fault THEN "crashed" ELSE "startup_midnight")
                  ELSE pc
         /\ schedState' = IF planning.who = "main" /\ r.fault THEN AfterCrash(schedState)
                          ELSE schedState
         /\ jobErrors' = IF planning.who = "worker" /\ r.fault
                         THEN jobErrors \cup {[id |-> MidnightId, at |-> clock]}
                         ELSE jobErrors
  /\ planning' = NoRun
  /\ UNCHANGED <<TIMETABLE, clock, application, botPc, delivered, refired, midnightFired,
                 interrupted, sendLog, midnightCalls, planCalls,
                 BOT_TOKEN, CHAT_ID, webserver, lastReply, inFlight>>

(* ------------------------------ the notifier --------------------------- *)
\* send_message_async: every failure of the send is caught and logged
SendOutcomes == {"sent", "TelegramError", "Exception"}

TestText == [tmpl |-> "Test Message", subject |-> "", start |-> <<>>, end |-> <<>>, next_text |-> NoText]

\* asyncio.create_task needs a running event loop in the calling thread;
\* only the bot thread runs one
HasRunningLoop(thread) == thread = "bot"

(* ------------------------------ job firing ----------------------------- *)
Due(j) == schedState = "running" /\ j \in BagToSet(jobs) /\ j.run_date <= clock

DeliveryKey(j) == [id |-> j.id, run_date |-> j.run_date, args |-> j.args]

\* a notification job fires: send_message(text) runs in a worker thread
FireSend ==
  \E j \in BagToSet(jobs) :
    /\ Due(j)
    /\ j.func = "send_message"
    /\ jobs' = RemoveJob(jobs, j)
    /\ delivered' = delivered \cup {DeliveryKey(j) @@ [at |-> clock]}
    /\ refired' = (refired \/ \E d \in delivered : d.id = j.id /\ d.run_date = j.run_date /\ d.args = j.args)
    /\ IF HasRunningLoop("worker")
       THEN /\ sendLog' = sendLog \cup {j.args}
            /\ inFlight' = inFlight \cup {j.args}
            /\ jobErrors' = jobErrors
       ELSE /\ sendLog' = sendLog
            /\ inFlight' = inFlight
            /\ jobErrors' = jobErrors \cup {[id |-> j.id, at |-> clock]}
    /\ quiet' = FALSE
    /\ UNCHANGED <<TIMETABLE, clock, schedState, pc, planning, application, botPc, lastRun,
                   midnightFired, interrupted, midnightCalls, planCalls,
                 BOT_TOKEN, CHAT_ID, webserver, lastReply>>

\* the midnight job fires: its callback is schedule_all_for_today
FireMidnight ==
  \E j \in BagToSet(jobs) :
    /\ Due(j)
    /\ j.func = "schedule_all_for_today"
    /\ planning.who = None
    /\ jobs' = RemoveJob(jobs, j)
    /\ planning' = BeginRun("worker")
    /\ midnightFired' = TRUE
    /\ quiet' = FALSE
    /\ UNCHANGED <<TIMETABLE, clock, schedState, pc, application, botPc, lastRun, delivered,
                   refired, jobErrors, interrupted, sendLog, midnightCalls, planCalls,
                 BOT_TOKEN, CHAT_ID, webserver, lastReply, inFlight>>

(* --------------------------------- main -------------------------------- *)
MainFrame ==
  UNCHANGED <<TIMETABLE, clock, planning, botPc, lastRun, quiet, delivered, refired,
              jobErrors, midnightFired, interrupted, midnightCalls, planCalls,
                 BOT_TOKEN, CHAT_ID, lastReply>>

\* the module body: a missing BOT_TOKEN or CHAT_ID is logged and raises
\* SystemExit before the scheduler, the Flask app or anything else exists
ImportConfig ==
  /\ pc = "import"
  /\ pc' = IF ConfigMissing(BOT_TOKEN, CHAT_ID) THEN "config_exit" ELSE "keep_alive"
  /\ UNCHANGED <<jobs, schedState, application, sendLog, webserver, inFlight>>
  /\ MainFrame

\* keep_alive()
MainKeepAlive ==
  /\ pc = "keep_alive"
  /\ webserver' = TRUE
  /\ pc' = "sched_start"
  /\ UNCHANGED <<jobs, schedState, application, sendLog, inFlight>>
  /\ MainFrame

\* scheduler.start()
MainSchedStart ==
  /\ pc = "sched_start"
  /\ schedState' = "running"
  /\ pc' = "test_msg"
  /\ UNCHANGED <<jobs, application, sendLog, webserver, inFlight>>
  /\ MainFrame

\* asyncio.run(send_test_message()): main begins the send and waits for it
MainTestMsg ==
  /\ pc = "test_msg"
  /\ sendLog' = sendLog \cup {TestText}
  /\ inFlight' = inFlight \cup {TestText}
  /\ pc' = "test_msg_wait"
  /\ UNCHANGED <<jobs, schedState, application, webserver>>
  /\ MainFrame

\* send_message_async returns: the send succeeded or its failure was logged
MainTestMsgDone ==
  /\ pc = "test_msg_wait"
  /\ \E outcome \in SendOutcomes :
       inFlight' = inFlight \ {TestText}
  /\ pc' = "startup_plan"
  /\ UNCHANGED <<jobs, schedState, application, sendLog, webserver>>
  /\ MainFrame

\* startup_schedule(): schedule_all_for_today() reads the weekday
MainStartupPlan ==
  /\ pc = "startup_plan"
  /\ planning.who = None
  /\ planning' = BeginRun("main")
  /\ pc' = "startup_plan_run"
  /\ UNCHANGED <<TIMETABLE, clock, jobs, schedState, application, botPc, lastRun, quiet,
                 delivered, refired, jobErrors, midnightFired, interrupted, sendLog,
                 midnightCalls, planCalls,
                 BOT_TOKEN, CHAT_ID, webserver, lastReply, inFlight>>

\* startup_schedule(): schedule_midnight_job()
MainStartupMidnight ==
  /\ pc = "startup_midnight"
  /\ jobs' = ScheduleMidnightJob(jobs, clock)
  /\ pc' = "bot_thread"
  /\ quiet' = FALSE
  /\ UNCHANGED <<TIMETABLE, clock, schedState, planning, application, botPc, lastRun,
                 delivered, refired, jobErrors, midnightFired, interrupted, sendLog,
                 midnightCalls, planCalls,
                 BOT_TOKEN, CHAT_ID, webserver, lastReply, inFlight>>

\* bot_thread.start(), then the sleep loop inside the try
MainBotThread ==
  /\ pc = "bot_thread"
  /\ botPc' = "build"
  /\ pc' = "sleep"
  /\ UNCHANGED <<TIMETABLE, clock, jobs, schedState, planning, application, lastRun, quiet,
                 delivered, refired, jobErrors, midnightFired, interrupted, sendLog,
                 midnightCalls, planCalls,
                 BOT_TOKEN, CHAT_ID, webserver, lastReply, inFlight>>

\* KeyboardInterrupt in the main thread: caught only inside the sleep loop
Interrupt ==
  /\ ~interrupted
  /\ ~Exited
  /\ interrupted' = TRUE
  /\ IF pc = "sleep"
     THEN /\ pc' = "except"
          /\ UNCHANGED <<schedState, planning>>
     ELSE /\ pc' = "crashed"
          /\ schedState' = AfterCrash(schedState)
          /\ planning' = IF planning.who = "main" THEN NoRun ELSE planning
  /\ UNCHANGED <<TIMETABLE, clock, jobs, application, botPc, lastRun, quiet, delivered,
                 refired, jobErrors, midnightFired, sendLog, midnightCalls, planCalls,
                 BOT_TOKEN, CHAT_ID, webserver, lastReply, inFlight>>

\* if application:
MainExcept ==
  /\ pc = "except"
  /\ pc' = IF application # None THEN "app_stop" ELSE "sched_shutdown"
  /\ UNCHANGED <<jobs, schedState, application, sendLog, webserver, inFlight>>
  /\ MainFrame

\* asyncio.run(application.stop()): RuntimeError when it is not running
MainAppStop ==
  /\ pc = "app_stop"
  /\ IF application = "running"
     THEN /\ application' = "stopped"
          /\ pc' = "app_shutdown"
          /\ UNCHANGED schedState
     ELSE /\ pc' = "crashed"
          /\ schedState' = AfterCrash(schedState)
          /\ UNCHANGED application
  /\ UNCHANGED <<jobs, sendLog, webserver, inFlight>>
  /\ MainFrame

\* asyncio.run(application.shutdown())
MainAppShutdown ==
  /\ pc = "app_shutdown"
  /\ pc' = "sched_shutdown"
  /\ UNCHANGED <<jobs, schedState, application, sendLog, webserver, inFlight>>
  /\ MainFrame

\* scheduler.shutdown(): waits for a running job callback, not for sends
MainSchedShutdown ==
  /\ pc = "sched_shutdown"
  /\ planning.who # "worker"
  /\ schedState' = "shutdown"
  /\ pc' = "done"
  /\ UNCHANGED <<jobs, application, sendLog, webserver, inFlight>>
  /\ MainFrame

(* ------------------------------ bot thread ----------------------------- *)
BotFrame ==
  UNCHANGED <<TIMETABLE, clock, jobs, schedState, pc, planning, lastRun, quiet, delivered,
              refired, jobErrors, midnightFired, interrupted, sendLog, midnightCalls, planCalls,
                 BOT_TOKEN, CHAT_ID, webserver, lastReply, inFlight>>

\* application = Application.builder().token(BOT_TOKEN).build()
BotBuild ==
  /\ ~Exited
  /\ botPc = "build"
  /\ application' = "built"
  /\ botPc' = "init"
  /\ BotFrame

\* initialize(), start(), start_polling(): or an exception ends the thread
BotStart ==
  /\ ~Exited
  /\ botPc = "init"
  /\ application = "built"
  /\ \E ok \in BOOLEAN :
       IF ok
       THEN application' = "running" /\ botPc' = "polling"
       ELSE application' = application /\ botPc' = "dead"
  /\ BotFrame

(* --------------------------- command handlers -------------------------- *)
\* the polling application dispatches a command to its handler
Listening == ~Exited /\ application = "running" /\ botPc = "polling"

\* a wrong handler that cancels the pending jobs
HandlerJobsCleared(table) == EmptyBag

\* what a command handler does to the job table: it never touches it
HandlerJobs(table) == table

CommandFrame ==
  UNCHANGED <<TIMETABLE, clock, schedState, pc, planning, application, botPc, lastRun, quiet,
              delivered, refired, jobErrors, midnightFired, interrupted, sendLog,
              midnightCalls, planCalls, BOT_TOKEN, CHAT_ID, webserver, inFlight>>

\* len(TIMETABLE.get(today_name, []))
ClassesToday(tt, today_name) == Len(TimetableGet(tt, today_name))

\* status_command: the weekday and the number of its classes are replied
StatusCommand ==
  /\ Listening
  /\ lastReply' = [cmd |-> "status", today_name |-> StrftimeA(clock),
                    classes_today |-> ClassesToday(TIMETABLE, StrftimeA(clock))]
  /\ jobs' = HandlerJobs(jobs)
  /\ CommandFrame

\* alive_command
AliveCommand ==
  /\ Listening
  /\ lastReply' = [cmd |-> "alive", today_name |-> None, classes_today |-> 0]
  /\ jobs' = HandlerJobs(jobs)
  /\ CommandFrame

\* help_command
HelpCommand ==
  /\ Listening
  /\ lastReply' = [cmd |-> "help", today_name |-> None, classes_today |-> 0]
  /\ jobs' = HandlerJobs(jobs)
  /\ CommandFrame

(* ------------------------- the whole process --------------------------- *)
Next ==
  \/ Tick
  \/ PlanRegister
  \/ FireSend
  \/ FireMidnight
  \/ ImportConfig
  \/ MainKeepAlive
  \/ MainSchedStart
  \/ MainTestMsg
  \/ MainTestMsgDone
  \/ MainStartupPlan
  \/ MainStartupMidnight
  \/ MainBotThread
  \/ Interrupt
  \/ MainExcept
  \/ MainAppStop
  \/ MainAppShutdown
  \/ MainSchedShutdown
  \/ BotBuild
  \/ BotStart
  \/ StatusCommand
  \/ AliveCommand
  \/ HelpCommand

Spec == Init /\ [][Next]_vars

(* ------------- the planner's operations called directly ---------------- *)
\* a started scheduler with an empty table at the first midnight, and a
\* caller of the planning functions who may call at any later instant
InitOps ==
  /\ TIMETABLE \in Timetables
  /\ clock = 0
  /\ jobs = EmptyBag
  /\ schedState = "running"
  /\ pc = "caller"
  /\ BOT_TOKEN = "set"
  /\ CHAT_ID = "set"
  /\ webserver = FALSE
  /\ lastReply = NoReply
  /\ inFlight = {}
  /\ planning = NoRun
  /\ application = None
  /\ botPc = "not_started"
  /\ lastRun = NoLastRun
  /\ quiet = FALSE
  /\ delivered = {}
  /\ refired = FALSE
  /\ jobErrors = {}
  /\ midnightFired = FALSE
  /\ interrupted = FALSE
  /\ sendLog = {}
  /\ midnightCalls = 0
  /\ planCalls = 0

\* schedule_all_for_today() is called, on the first day: it reads the weekday
CallScheduleAll ==
  /\ pc = "caller"
  /\ planning.who = None
  /\ planCalls < MaxCalls
  /\ clock < MinutesPerDay
  /\ planCalls' = planCalls + 1
  /\ planning' = BeginRun("caller")
  /\ UNCHANGED <<TIMETABLE, clock, jobs, schedState, pc, application, botPc, lastRun, quiet,
                 delivered, refired, jobErrors, midnightFired, interrupted, sendLog,
                 midnightCalls,
                 BOT_TOKEN, CHAT_ID, webserver, lastReply, inFlight>>

\* schedule_midnight_job() is called
CallScheduleMidnight ==
  /\ pc = "caller"
  /\ planning.who = None
  /\ jobs' = ScheduleMidnightJob(jobs, clock)
  /\ midnightCalls < MaxCalls
  /\ midnightCalls' = midnightCalls + 1
  /\ quiet' = FALSE
  /\ UNCHANGED <<TIMETABLE, clock, schedState, pc, planning, application, botPc, lastRun,
                 delivered, refired, jobErrors, midnightFired, interrupted, sendLog, planCalls,
                 BOT_TOKEN, CHAT_ID, webserver, lastReply, inFlight>>

NextOps ==
  \/ Tick
  \/ PlanRegister
  \/ FireSend
  \/ CallScheduleAll

SpecOps == InitOps /\ [][NextOps]_vars

NextMidnightOps ==
  \/ Tick
  \/ PlanRegister
  \/ FireSend
  \/ FireMidnight
  \/ CallScheduleMidnight

SpecMidnightOps == InitOps /\ [][NextMidnightOps]_vars

(* ============================ the claims =============================== *)
Kinds == {"10min", "start", "5end"}

RunDone == lastRun.who # None

RunClasses == TimetableGet(TIMETABLE, lastRun.today_name)

Parses(cls) == Strptime(cls.start) # ValueError /\ Strptime(cls.end) # ValueError

\* the candidate instant of a kind for a class, on the date of the run's now
Candidate(cls, kind) ==
  DateOf(lastRun.now) +
    (CASE kind = "10min" -> Strptime(cls.start) - 10
       [] kind = "start" -> Strptime(cls.start)
       [] kind = "5end"  -> Strptime(cls.end) - 5)

RegSet == {lastRun.regs[i] : i \in 1..Len(lastRun.regs)}

RegTriples == {[idx |-> r.idx, kind |-> r.kind, run_date |-> r.job.run_date] : r \in RegSet}

FutureTriples ==
  {[idx |-> i, kind |-> k, run_date |-> Candidate(RunClasses[i + 1], k)] :
     <<i, k>> \in {x \in (0..(Len(RunClasses) - 1)) \X Kinds :
                     Candidate(RunClasses[x[1] + 1], x[2]) > lastRun.now}}

AllCandidatesFuture ==
  \A i \in 1..Len(RunClasses) : \A k \in Kinds :
     Parses(RunClasses[i]) /\ Candidate(RunClasses[i], k) > lastRun.now

\* C2: after the startup run on the empty table, over N classes whose three
\* candidates are all later than now, the table holds exactly 3N jobs with
\* pairwise distinct identifiers.
C2_Exactly3N ==
  (RunDone /\ lastRun.who = "main" /\ pc = "startup_midnight" /\ clock = lastRun.now
     /\ lastRun.preEmpty /\ AllCandidatesFuture) =>
     /\ BagCardinality(jobs) = 3 * Len(RunClasses)
     /\ Cardinality(JobIds(jobs)) = 3 * Len(RunClasses)

MidnightJobs == {j \in BagToSet(jobs) : j.id = MidnightId}

\* C3: once the midnight job has fired and its run of schedule_all_for_today
\* is over, a midnight job for 00:01 of the following day is pending.
C3_MidnightChains ==
  (midnightFired /\ planning.who = None /\ lastRun.who = "worker" /\ schedState = "running") =>
     \E j \in MidnightJobs : j.run_date = Tomorrow(lastRun.now)

C5_NoRetroactive ==
  /\ \A r \in RegSet : r.job.run_date > lastRun.now
  /\ RunDone =>
       \A i \in 1..Len(RunClasses) : \A k \in Kinds :
          (Parses(RunClasses[i]) /\ Candidate(RunClasses[i], k) <= lastRun.now) =>
             ~\E r \in RegSet : r.idx = i - 1 /\ r.kind = k
  /\ schedState = "running" => \A j \in BagToSet(jobs) : j.run_date >= clock
  /\ \A d \in delivered : d.at = d.run_date

\* the first class of the day had ended when the run read now: nothing is
\* registered for it, while a later class still gets jobs
C5_PastEventSkipped ==
  /\ RunDone
  /\ Len(RunClasses) = 2
  /\ Parses(RunClasses[1])
  /\ DateOf(lastRun.now) + Strptime(RunClasses[1].end) < lastRun.now
  /\ ~\E r \in RegSet : r.idx = 0
  /\ \E r \in RegSet : r.idx = 1

\* C6: the job table never holds more than one job under the identifier
\* "schedule_tomorrow".
C6_OneMidnightJob ==
  BagCardinality([j \in MidnightJobs |-> jobs[j]]) <= 1

\* schedule_midnight_job was called on two different days and the later
\* call's job is the one pending
C6_MidnightReplaced ==
  /\ midnightCalls = 2
  /\ ~midnightFired
  /\ \E j \in MidnightJobs : j.run_date = 2 * MinutesPerDay + MidnightMinute

\* C7: the pre-end message registered for the class at position i carries
\* "No more classes today" when i is the last position and otherwise the
\* subject and start of the class at position i+1.
C7_PreEndNextText ==
  \A r \in RegSet :
     r.kind = "5end" =>
        r.job.args.next_text =
          (IF r.idx = Len(RunClasses) - 1
           THEN [tmpl |-> "No more classes today", subject |-> "", start |-> <<>>]
           ELSE [tmpl |-> "Next", subject |-> RunClasses[r.idx + 2].subject,
                 start |-> RunClasses[r.idx + 2].start])

\* a run registered the pre-end job of a class that has a successor and of
\* the last class
C7_BothPositions ==
  /\ RunDone
  /\ Len(RunClasses) = 2
  /\ \E r \in RegSet : r.kind = "5end" /\ r.idx = 0
  /\ \E r \in RegSet : r.kind = "5end" /\ r.idx = 1

\* C8: no firing of a notification job ends with an error raised into the
\* scheduler's job-firing context.
C8_NoErrorInFiringContext ==
  \A e \in jobErrors : e.id = MidnightId

\* C9: a run of schedule_all_for_today that follows a run directly, with no
\* clock step, firing or other registration since the first run began,
\* leaves the job table as it was.
C9_Idempotent ==
  [][(planning.who # None /\ planning'.who = None /\ quiet) => jobs' = jobs]_vars

\* a second run in a row has re-registered pending jobs
C9_SecondRunInRow ==
  /\ RunDone
  /\ lastRun.inRow
  /\ lastRun.regs # <<>>
  /\ {r.job.id : r \in RegSet} \subseteq lastRun.preIds

\* C10: when the process has ended after an interrupt signal, a scheduler
\* that had been started has been shut down.
C10_ShutdownReachesScheduler ==
  (interrupted /\ Exited) => schedState \in {"stopped", "shutdown"}

StartupComplete == pc = "bot_thread" /\ lastRun.who = "main"

TodayClasses == TimetableGet(TIMETABLE, StrftimeA(clock))

\* the instant of a kind of notification for a class on the date of the clock
InstantToday(cls, kind) ==
  DateOf(clock) +
    (CASE kind = "10min" -> Strptime(cls.start) - 10
       [] kind = "start" -> Strptime(cls.start)
       [] kind = "5end"  -> Strptime(cls.end) - 5)

\* C11: when startup_schedule has returned (schedule_all_for_today, then
\* schedule_midnight_job), every notification of today that is still to
\* come has its job in the table, and the table holds exactly one midnight
\* job, for 00:01 of the next calendar day.
C11_StartupTable ==
  StartupComplete =>
     /\ \A i \in 1..Len(TodayClasses) : \A k \in Kinds :
          InstantToday(TodayClasses[i], k) > clock =>
             \E j \in BagToSet(jobs) :
                /\ j.func = "send_message"
                /\ j.run_date = InstantToday(TodayClasses[i], k)
                /\ j.args.subject = TodayClasses[i].subject
                /\ j.args.end = TodayClasses[i].end
     /\ \A j \in MidnightJobs : j.run_date = Tomorrow(clock) /\ jobs[j] = 1
     /\ Cardinality(MidnightJobs) = 1

CommandStep == StatusCommand \/ AliveCommand \/ HelpCommand

\* C12: a step in which a command handler runs (status, alive or help), and
\* any step that changes the last reply, leaves the job table and the
\* timetable as they were.
C12_HandlersLeaveTable ==
  [][(CommandStep \/ lastReply' # lastReply) => (jobs' = jobs /\ TIMETABLE' = TIMETABLE)]_vars

\* a status reply while notification jobs are pending, after a firing
C12_CommandAmidJobs ==
  /\ lastReply.cmd = "status"
  /\ delivered # {}
  /\ \E j \in BagToSet(jobs) : j.func = "send_message"

\* the weekday has no events: its key is absent or maps to the empty sequence
DayEmpty(today_name) == today_name \notin DOMAIN TIMETABLE \/ TIMETABLE[today_name] = <<>>

\* C13: on a weekday with no events, its key absent from the timetable or
\* mapped to the empty sequence, a run of schedule_all_for_today ends
\* without a fault having called add_job not once, and the status reply
\* reports 0 classes.
C13_EmptyDay ==
  /\ (RunDone /\ DayEmpty(lastRun.today_name)) => (lastRun.regs = <<>> /\ ~lastRun.fault)
  /\ (lastReply.cmd = "status" /\ DayEmpty(lastReply.today_name)) => lastReply.classes_today = 0

\* the midnight run and a status query on a Tuesday absent from a timetable
\* whose Monday has classes
C13_AbsentKey ==
  /\ lastRun.who = "worker"
  /\ lastRun.today_name \notin DOMAIN TIMETABLE
  /\ lastReply.cmd = "status"
  /\ lastReply.today_name \notin DOMAIN TIMETABLE
  /\ TIMETABLE["Monday"] # <<>>

\* C14: with BOT_TOKEN or CHAT_ID unset or empty the process never passes
\* the configuration check: it ends there (or at an interrupt that comes
\* before the check), the scheduler is never started,
\* no job is registered, no send is begun, and neither the bot thread nor
\* the Flask thread is started.
C14_MissingConfigExits ==
  (BOT_TOKEN \in {None, ""} \/ CHAT_ID \in {None, ""}) =>
     /\ pc \in {"import", "config_exit", "crashed"}
     /\ schedState = "stopped"
     /\ jobs = EmptyBag
     /\ sendLog = {}
     /\ inFlight = {}
     /\ application = None
     /\ botPc = "not_started"
     /\ ~webserver
     /\ lastRun.who = None

\* the process has ended at the check with only CHAT_ID missing
C14_OnlyChatIdMissing ==
  /\ BOT_TOKEN = "set"
  /\ CHAT_ID = None
  /\ pc = "config_exit"

\* C15: every notification job that has fired has caused a send attempt of
\* its message text.
C15_FiredJobSends == \A d \in delivered : d.args \in sendLog

\* a step of a planning run: its first clock read or its registrations
RegistrationStep == MainStartupPlan \/ FireMidnight \/ PlanRegister

\* C16: while a send is in flight and the process lives, the startup
\* planning that has not yet run can take its next step.
C16_SendDoesNotBlock ==
  (inFlight # {} /\ ~Exited /\ lastRun.who = None) => ENABLED RegistrationStep

\* a time text that "%H:%M" accepts
WellFormed(s) == Len(s) = 2 /\ s[1] \in 0..23 /\ s[2] \in 0..59

\* the positions (from 1) of the classes with an unparseable start or end
BadAt(classes) ==
  {i \in 1..Len(classes) : ~(WellFormed(classes[i].start) /\ WellFormed(classes[i].end))}

FirstBad(classes) == CHOOSE i \in BadAt(classes) : \A j \in BadAt(classes) : i <= j

\* the table after the add_job calls of a run, in their order
RECURSIVE ReplayRegs(_, _, _)
ReplayRegs(table, regs, n) ==
  IF n > Len(regs) THEN table ELSE ReplayRegs(AddJob(table, regs[n].job), regs, n + 1)

\* C17: a run of schedule_all_for_today over a sequence whose first
\* unparseable start or end time is at position k ends with a fault; its
\* add_job calls are exactly those of the future candidates of the
\* positions before k, the table it leaves is the table it found with these
\* calls applied (nothing is rolled back, nothing is added for k or later),
\* and the startup run ends the process with no midnight job registered.
C17_AbortKeepsEarlierJobs ==
  [][(/\ planning.who # None
      /\ planning'.who = None
      /\ interrupted' = interrupted
      /\ BadAt(TimetableGet(TIMETABLE, planning.today_name)) # {}) =>
       LET classes == TimetableGet(TIMETABLE, planning.today_name)
           k == FirstBad(classes) - 1
           regs == lastRun'.regs
       IN  /\ lastRun'.fault
           /\ {<<regs[n].idx, regs[n].kind>> : n \in 1..Len(regs)} =
                {x \in (0..(k - 1)) \X Kinds : InstantToday(classes[x[1] + 1], x[2]) > clock}
           /\ jobs' = ReplayRegs(jobs, regs, 1)
           /\ planning.who = "main" =>
                (pc' = "crashed" /\ \A j \in BagToSet(jobs') : j.id # MidnightId)]_vars

\* Monday [Math 09:00-10:00, Chem 25:00-10:00] planned at startup at 08:40:
\* the three jobs of Math are in the table and the process has ended
C17_PartialDay ==
  /\ lastRun.who = "main"
  /\ lastRun.fault
  /\ RunClasses = <<Math9, BadChem>>
  /\ lastRun.now = 8 * 60 + 40
  /\ Len(lastRun.regs) = 3
  /\ {j.id : j \in BagToSet(jobs)} =
       {<<"Monday", "Math", "10min">>, <<"Monday", "Math", "start">>, <<"Monday", "Math", "5end">>}
  /\ pc = "crashed"

\* C18: the weekday a completed run used to select the classes and to build
\* the job identifiers is the weekday of the date of the now it used for
\* the fire-at instants.
C18_WeekdayOfDateUsed == RunDone => lastRun.today_name = StrftimeA(lastRun.now)

====
